---- MODULE Spec2Model ----
(***************************************************************************)
(* A model of the Hacker News terminal client (src/main.rs): the App       *)
(* state and its methods, the background fetch task                        *)
(* (fetch_stories_with_progress), the unbounded mpsc channel between the   *)
(* task and the UI loop, the UI loop of run_app (drain, render, key), and   *)
(* main with its terminal setup and cleanup.                               *)
(*                                                                         *)
(* A story (Item) is represented by the identifier it was fetched for.     *)
(* Option<T> is represented by a sequence: <<>> is None, <<x>> is Some(x). *)
(***************************************************************************)
EXTENDS Integers, Sequences, FiniteSets, TLC

VARIABLES
    stories,           \* App.stories: Vec<Item>
    selected,          \* App.selected: usize
    state,             \* App.state: AppState, [tag, msg]
    loading_progress,  \* App.loading_progress: u16
    chan,              \* the unbounded mpsc channel (tx -> rx), FIFO
    tasks,             \* the spawned fetch tasks, by spawn order
    spawned,           \* number of tokio::spawn calls so far
    uiPc,              \* position of run_app: "drain", "render", "poll", "done"
                       \* ("idle" before main calls it)
    call,              \* the last App method called (API harness only)
    opened,            \* the open::that call of the last UI-loop step, if any
    ignored,           \* the last UI-loop step was a key press no arm matched
    main               \* main: its position and the terminal's modes

vars == <<stories, selected, state, loading_progress, chan, tasks, spawned, uiPc, call,
          opened, ignored, main>>

appVars == <<stories, selected, state, loading_progress>>

\* ----------------------------------------------------------------- bounds

\* Number of fetch tasks spawned in one run (startup + refreshes/retries).
MaxSpawns == 2

\* In the whole program the index endpoint answers with 0..SmallLen
\* identifiers or with MaxIndexLen (more than the program keeps); a fetch on
\* its own is run over every length 0..MaxIndexLen.
SmallLen == 3

MaxIndexLen == 31

\* Item requests may fail for the identifiers 1..MaxBrokenId.
MaxBrokenId == 2

\* Messages queued in the channel at once (the code's channel is unbounded).
MaxQueue == 3

\* Length of the lists handed to set_stories by the API harness.
MaxLen == 3

\* ------------------------------------------------------ program constants

\* ids.into_iter().take(30)
MaxStories == 30

\* progress.min(100)
MaxProgress == 100

\* u16::MAX, the width of loading_progress and of the progress values
U16Max == 65535

\* ---------------------------------------------------------------- helpers

Min(a, b) == IF a < b THEN a ELSE b

Max(a, b) == IF a > b THEN a ELSE b

\* usize::saturating_sub
SaturatingSub(a, b) == IF a > b THEN a - b ELSE 0

\* Iterator::take(n) on a sequence
Take(s, n) == SubSeq(s, 1, Min(n, Len(s)))

\* <<1, 2, ..., n>>
Iota(n) == [i \in 1..n |-> i]

\* AppState values
Loading == [tag |-> "Loading", msg |-> ""]

StoriesState == [tag |-> "Stories", msg |-> ""]

ErrorState(e) == [tag |-> "Error", msg |-> e]

\* ------------------------------------------------------------ App methods

\* App::new
App_new ==
    /\ stories = <<>>
    /\ selected = 0
    /\ state = Loading
    /\ loading_progress = 0

\* App::next, mutated: the bound check is off by one (<= instead of <)
App_next_offbyone ==
    /\ selected' = IF stories # <<>> /\ selected <= SaturatingSub(Len(stories), 1)
                   THEN selected + 1 ELSE selected
    /\ UNCHANGED <<stories, state, loading_progress>>

\* App::next
App_next ==
    /\ selected' = IF stories # <<>> /\ selected < SaturatingSub(Len(stories), 1)
                   THEN selected + 1 ELSE selected
    /\ UNCHANGED <<stories, state, loading_progress>>

\* App::previous
App_previous ==
    /\ selected' = IF selected > 0 THEN selected - 1 ELSE selected
    /\ UNCHANGED <<stories, state, loading_progress>>

\* App::selected_story: self.stories.get(self.selected), 0-based
selected_story ==
    IF selected < Len(stories) THEN <<stories[selected + 1]>> ELSE <<>>

\* App::set_stories, mutated: the selection is not reset
set_stories_keepsel(list) ==
    /\ stories' = list
    /\ state' = StoriesState
    /\ UNCHANGED <<selected, loading_progress>>

\* App::set_stories
set_stories(list) ==
    /\ stories' = list
    /\ state' = StoriesState
    /\ selected' = 0
    /\ UNCHANGED loading_progress

\* App::set_error, mutated: showing the error also drops the stories
set_error_clear(error) ==
    /\ state' = ErrorState(error)
    /\ stories' = <<>>
    /\ selected' = 0
    /\ UNCHANGED loading_progress

\* App::set_error
set_error(error) ==
    /\ state' = ErrorState(error)
    /\ UNCHANGED <<stories, selected, loading_progress>>

\* App::update_loading_progress
update_loading_progress(progress) ==
    /\ loading_progress' = Min(progress, MaxProgress)
    /\ UNCHANGED <<stories, selected, state>>

\* -------------------------------------------------- f32 arithmetic (IEEE)

\* num / den rounded to the nearest integer, ties to even
RoundHalfEven(num, den) ==
    LET q == num \div den
        r == num % den
    IN  IF 2 * r > den \/ (2 * r = den /\ q % 2 = 1) THEN q + 1 ELSE q

\* The least e >= from with a * 2^e >= b * 2^23 (a > 0, b > 0)
RECURSIVE F32Scale(_, _, _)
F32Scale(a, b, from) ==
    IF a * (2 ^ from) >= b * (2 ^ 23) THEN from ELSE F32Scale(a, b, from + 1)

\* The least s >= from with p < 2^(24 + s)
RECURSIVE F32Drop(_, _)
F32Drop(p, from) ==
    IF p \div (2 ^ from) < 2 ^ 24 THEN from ELSE F32Drop(p, from + 1)

\* An f32 value m * 2^(-e), 2^23 <= m < 2^24 (or m = 0): renormalise
\* a mantissa that rounding carried up to 2^24
F32Norm(m, e) == IF m = 2 ^ 24 THEN [m |-> 2 ^ 23, e |-> e - 1] ELSE [m |-> m, e |-> e]

\* index as f32 / total_ids, for integers 0 <= a, 0 < b, a / b < 2^24
F32Div(a, b) ==
    IF a = 0 THEN [m |-> 0, e |-> 0]
    ELSE LET e == F32Scale(a, b, 0)
         IN  F32Norm(RoundHalfEven(a * (2 ^ e), b), e)

\* x * c in f32, for a small integer constant c (c = 70.0)
F32MulInt(x, c) ==
    IF x.m = 0 THEN x
    ELSE LET p == x.m * c
             s == F32Drop(p, 0)
         IN  F32Norm(RoundHalfEven(p, 2 ^ s), x.e - s)

\* x as u16: truncation toward zero, saturating
F32ToU16(x) ==
    IF x.e >= 0 THEN Min(x.m \div (2 ^ x.e), U16Max) ELSE U16Max

\* 20 + ((index as f32 / total_ids) * 70.0) as u16, mutated: the loop
\* covers 20% to 100%, counting the item just fetched
ItemProgress_upto100(index, total) ==
    (20 + F32ToU16(F32MulInt(F32Div(index + 1, total), 80))) % (U16Max + 1)

\* 20 + ((index as f32 / total_ids) * 70.0) as u16
ItemProgress(index, total) ==
    (20 + F32ToU16(F32MulInt(F32Div(index, total), 70))) % (U16Max + 1)

\* ------------------------------------------------------------ the channel

\* AppMessage; "from" records the sending task
Progress(p, t) == [type |-> "Progress", progress |-> p, stories |-> <<>>, error |-> "", from |-> t]

StoriesLoaded(list, t) == [type |-> "StoriesLoaded", progress |-> 0, stories |-> list, error |-> "", from |-> t]

ErrorMsg(e, t) == [type |-> "Error", progress |-> 0, stories |-> <<>>, error |-> e, from |-> t]

\* The receiver lives until run_app returns
RxAlive == uiPc # "done"

\* tx_clone.send(msg), mutated: the newest message overtakes the queued ones
Send_front(msg) ==
    /\ Len(chan) < MaxQueue
    /\ chan' = IF RxAlive THEN <<msg>> \o chan ELSE chan

\* tx_clone.send(msg).unwrap(), mutated: a send fails the task once rx is
\* dropped (the task never gets past it)
Send_unwrap(msg) ==
    /\ Len(chan) < MaxQueue
    /\ RxAlive
    /\ chan' = Append(chan, msg)

\* let _ = tx_clone.send(msg): never blocks; fails, ignored, once rx is dropped
Send(msg) ==
    /\ Len(chan) < MaxQueue
    /\ chan' = IF RxAlive THEN Append(chan, msg) ELSE chan

\* ---------------------------------------------------------- the fetch task

Tasks == 1..MaxSpawns

\* A task slot: "idle" before tokio::spawn, "done" after the terminal send,
\* "cancelled" once the runtime has dropped the task at an .await.
\* ids, index and stories are the locals of fetch_stories_with_progress;
\* the other fields record what the task did: resp the index response,
\* sink the values passed to progress_callback, reqs the identifiers of the
\* item requests issued, failed the positions (0-based) whose request
\* failed, indexed whether the index request succeeded, term the terminal
\* messages sent, and result what the function returned ("ok",
\* "build_err", "index_err").  The record of a finished task is kept until
\* the next spawn, its term and result for good.
IdleTask ==
    [pc |-> "idle", resp |-> <<>>, ids |-> <<>>, index |-> 0, stories |-> <<>>,
     sink |-> <<>>, reqs |-> <<>>, failed |-> {}, indexed |-> FALSE, term |-> <<>>,
     result |-> "none"]

NewTask == [IdleTask EXCEPT !.pc = "build"]

RetiredTask(rec) == [IdleTask EXCEPT !.pc = "done", !.term = rec.term, !.result = rec.result]

Live(t) == tasks[t].pc \notin {"idle", "done", "cancelled"}

\* What the index endpoint may answer: the identifiers 1..n in rank order
Ascending(lens) == {Iota(n) : n \in lens}

\* ... or n..1 in rank order
Descending(lens) == {[i \in 1..n |-> n + 1 - i] : n \in lens}

IndexLens == (0..SmallLen) \cup {MaxIndexLen}

\* fetch_top_story_ids: Ok(ids.into_iter().take(30).collect()), mutated:
\* the response is not truncated
TruncateIds_all(resp) == resp

\* fetch_top_story_ids: Ok(ids.into_iter().take(30).collect())
TruncateIds(resp) == Take(resp, MaxStories)

\* progress_callback(p) of task t: one Progress message, logged in sink
Callback(t, p, rec) ==
    /\ Send(Progress(p, t))
    /\ tasks' = [tasks EXCEPT ![t] = [rec EXCEPT !.sink = Append(@, p)]]

\* Client::builder().timeout(..).build()?; progress_callback(10);
\* a build error returns Err, which the task sends as AppMessage::Error
TaskBuild(t) ==
    /\ tasks[t].pc = "build"
    /\ \/ Callback(t, 10, [tasks[t] EXCEPT !.pc = "index"])
       \/ /\ Send(ErrorMsg("builder error", t))
          /\ tasks' = [tasks EXCEPT ![t] = [@ EXCEPT !.pc = "done", !.result = "build_err",
                                                     !.term = Append(@, "Error")]]
    /\ UNCHANGED <<appVars, spawned, uiPc, call, opened, ignored, main>>

\* let ids = fetch_top_story_ids(&client).await?; progress_callback(20);
\* a failed or malformed index response returns Err: AppMessage::Error
TaskIndex(t, responses) ==
    /\ tasks[t].pc = "index"
    /\ \/ \E resp \in responses :
             Callback(t, 20, [tasks[t] EXCEPT !.pc = "items", !.resp = resp, !.indexed = TRUE,
                                              !.ids = TruncateIds(resp), !.index = 0])
       \/ \E e \in {"error sending request", "error decoding response body"} :
             /\ Send(ErrorMsg(e, t))
             /\ tasks' = [tasks EXCEPT ![t] = [@ EXCEPT !.pc = "done", !.result = "index_err",
                                                        !.term = Append(@, "Error")]]
    /\ UNCHANGED <<appVars, spawned, uiPc, call, opened, ignored, main>>

\* The progress expression at every position of every list an index
\* response can give the loop, computed once
ProgressAt ==
    [total \in 1..Max(MaxStories, MaxIndexLen) |->
        [index \in 0..(total - 1) |-> ItemProgress(index, total)]]

\* One iteration of the loop over ids.iter().enumerate(), mutated: a failed
\* item request aborts the fetch with an error
TaskItem_abort(t) ==
    /\ tasks[t].pc = "items"
    /\ tasks[t].index < Len(tasks[t].ids)
    /\ LET rec == tasks[t]
           id == rec.ids[rec.index + 1]
           asked == [rec EXCEPT !.reqs = Append(@, id), !.index = @ + 1]
       IN  \/ Callback(t, ProgressAt[Len(rec.ids)][rec.index],
                       [asked EXCEPT !.stories = Append(@, id)])
           \/ /\ id <= MaxBrokenId
              /\ Send(ErrorMsg("error sending request", t))
              /\ tasks' = [tasks EXCEPT ![t] = [asked EXCEPT !.pc = "done", !.result = "item_err",
                                                             !.failed = @ \cup {rec.index},
                                                             !.term = Append(@, "Error")]]
    /\ UNCHANGED <<appVars, spawned, uiPc, call, opened, ignored, main>>

\* One iteration of the loop over ids.iter().enumerate(): fetch_item, push
\* the item or report the failure and skip it, then report the progress
TaskItem(t) ==
    /\ tasks[t].pc = "items"
    /\ tasks[t].index < Len(tasks[t].ids)
    /\ LET rec == tasks[t]
           id == rec.ids[rec.index + 1]
           asked == [rec EXCEPT !.reqs = Append(@, id), !.index = @ + 1]
           p == ProgressAt[Len(rec.ids)][rec.index]
       IN  \/ Callback(t, p, [asked EXCEPT !.stories = Append(@, id)])
           \/ /\ id <= MaxBrokenId
              /\ Callback(t, p, [asked EXCEPT !.failed = @ \cup {rec.index}])
    /\ UNCHANGED <<appVars, spawned, uiPc, call, opened, ignored, main>>

\* After the loop: progress_callback(100); Ok(stories)
TaskComplete(t) ==
    /\ tasks[t].pc = "items"
    /\ tasks[t].index = Len(tasks[t].ids)
    /\ Callback(t, 100, [tasks[t] EXCEPT !.pc = "result", !.result = "ok"])
    /\ UNCHANGED <<appVars, spawned, uiPc, call, opened, ignored, main>>

\* Ok(stories) => tx_clone.send(..), mutated: the result is sent twice
TaskSendResult_twice(t) ==
    /\ tasks[t].pc = "result"
    /\ Send(StoriesLoaded(tasks[t].stories, t))
    /\ tasks' = [tasks EXCEPT ![t] = [@ EXCEPT !.pc = IF @ = "result" /\ tasks[t].term = <<>>
                                                       THEN "result" ELSE "done",
                                              !.term = Append(@, "StoriesLoaded")]]
    /\ UNCHANGED <<appVars, spawned, uiPc, call, opened, ignored, main>>

\* Ok(stories) => tx_clone.send(AppMessage::StoriesLoaded(stories))
TaskSendResult(t) ==
    /\ tasks[t].pc = "result"
    /\ Send(StoriesLoaded(tasks[t].stories, t))
    /\ tasks' = [tasks EXCEPT ![t] = [@ EXCEPT !.pc = "done", !.term = Append(@, "StoriesLoaded")]]
    /\ UNCHANGED <<appVars, spawned, uiPc, call, opened, ignored, main>>

\* tokio::spawn(async move { match fetch_stories_with_progress(..) .. })
SpawnFetch ==
    /\ spawned < MaxSpawns
    /\ spawned' = spawned + 1
    /\ tasks' = [t \in Tasks |->
                    IF t = spawned + 1 THEN NewTask
                    ELSE IF tasks[t].pc = "done" THEN RetiredTask(tasks[t])
                    ELSE tasks[t]]

\* ---------------------------------------------------------------- run_app

QuitKeys == {"q", "Q", "Esc"}

DownKeys == {"Down", "j"}

UpKeys == {"Up", "k"}

RefreshKeys == {"r", "R"}

\* KeyCode values of key-press events ("x": any key the loop does not bind)
Keys == QuitKeys \cup DownKeys \cup UpKeys \cup RefreshKeys \cup {"Enter", "x"}

\* return from run_app: rx is dropped with whatever is still queued, and so
\* is the App that run_app owns (its fields read as after App::new from here)
Return ==
    /\ uiPc' = "done"
    /\ chan' = <<>>
    /\ stories' = <<>>
    /\ selected' = 0
    /\ state' = Loading
    /\ loading_progress' = 0

\* Item.url of the item with identifier id, as the item request returns it:
\* absent, the empty string, or a link (Option<String>)
UrlOf(id) ==
    CASE id % 3 = 1 -> <<>>
      [] id % 3 = 2 -> <<"https://example.com/" \o ToString(id)>>
      [] OTHER -> <<"">>

\* let _ = open::that(url): the opener is handed url; its result is dropped
OpenThat(url) == \E ok \in BOOLEAN : opened' = <<[url |-> url, ok |-> ok]>>

\* a step of the loop that does not call the opener
NoOpen == opened' = <<>>

\* the key press ran an arm of the current mode's match on key.code
Handled == ignored' = FALSE

\* _ => {}: the key press matched no arm of the current mode
Ignored == ignored' = TRUE

\* run_app hands res to main: Ok(()) on quit, the I/O error otherwise
Returned(res) == main' = [main EXCEPT !.res = res]

\* back to the top of the loop
Continue ==
    /\ uiPc' = "drain"
    /\ UNCHANGED <<chan, main>>

\* while let Ok(msg) = rx.try_recv() { match msg { .. } }: one message
Recv ==
    /\ uiPc = "drain"
    /\ chan # <<>>
    /\ LET msg == Head(chan)
       IN  CASE msg.type = "Progress" -> update_loading_progress(msg.progress)
             [] msg.type = "StoriesLoaded" -> set_stories(msg.stories)
             [] msg.type = "Error" -> set_error(msg.error)
    /\ chan' = Tail(chan)
    /\ opened' = <<>>
    /\ ignored' = FALSE
    /\ UNCHANGED <<tasks, spawned, uiPc, call, main>>

\* if let Ok(msg) = rx.try_recv(), mutated: the loop moves on to the draw
\* after one message, whatever is still queued
DrainEnd_early ==
    /\ uiPc = "drain"
    /\ uiPc' = "render"
    /\ opened' = <<>>
    /\ ignored' = FALSE
    /\ UNCHANGED <<appVars, chan, tasks, spawned, call, main>>

\* rx.try_recv() finds the channel empty: the while-let loop ends
DrainEnd ==
    /\ uiPc = "drain"
    /\ chan = <<>>
    /\ uiPc' = "render"
    /\ opened' = <<>>
    /\ ignored' = FALSE
    /\ UNCHANGED <<appVars, chan, tasks, spawned, call, main>>

\* terminal.draw(|f| ui(f, &mut app))?: draws the App, or returns the error
Render ==
    /\ uiPc = "render"
    /\ \/ uiPc' = "poll" /\ UNCHANGED <<chan, appVars, main>>
       \/ Return /\ Returned("err")
    /\ opened' = <<>>
    /\ ignored' = FALSE
    /\ UNCHANGED <<tasks, spawned, call>>

\* event::poll times out, or the event is no key press: next tick
NoKey ==
    /\ uiPc = "poll"
    /\ Continue
    /\ opened' = <<>>
    /\ ignored' = FALSE
    /\ UNCHANGED <<appVars, tasks, spawned, call>>

\* event::poll(..)? or event::read()? fails: run_app returns the error
PollError ==
    /\ uiPc = "poll"
    /\ Return
    /\ Returned("err")
    /\ opened' = <<>>
    /\ ignored' = FALSE
    /\ UNCHANGED <<tasks, spawned, call>>

\* AppState::Loading => match key.code, mutated: 'r' restarts loading as it
\* does in the other modes
LoadingKey_refresh(k) ==
    /\ NoOpen
    /\ IF k \in QuitKeys
       THEN Return /\ Returned("ok") /\ Handled /\ UNCHANGED <<tasks, spawned>>
       ELSE IF k \in RefreshKeys
       THEN /\ state' = Loading
            /\ loading_progress' = 0
            /\ SpawnFetch
            /\ Continue
            /\ Handled
            /\ UNCHANGED <<stories, selected>>
       ELSE Continue /\ Ignored /\ UNCHANGED <<appVars, tasks, spawned>>

\* AppState::Loading => match key.code
LoadingKey(k) ==
    /\ NoOpen
    /\ IF k \in QuitKeys
       THEN Return /\ Returned("ok") /\ Handled /\ UNCHANGED <<tasks, spawned>>
       ELSE Continue /\ Ignored /\ UNCHANGED <<appVars, tasks, spawned>>

\* AppState::Error(_) => match key.code, mutated: 'r' resets the screen to
\* Loading but spawns no fetch task
ErrorKey_nospawn(k) ==
    /\ NoOpen
    /\ IF k \in QuitKeys
       THEN Return /\ Returned("ok") /\ Handled /\ UNCHANGED <<tasks, spawned>>
       ELSE IF k \in RefreshKeys
       THEN /\ state' = Loading
            /\ loading_progress' = 0
            /\ Continue
            /\ Handled
            /\ UNCHANGED <<stories, selected, tasks, spawned>>
       ELSE Continue /\ Ignored /\ UNCHANGED <<appVars, tasks, spawned>>

\* AppState::Error(_) => match key.code, mutated: retry leaves the stored
\* progress as the failed fetch left it
ErrorKey_keepprogress(k) ==
    /\ NoOpen
    /\ IF k \in QuitKeys
       THEN Return /\ Returned("ok") /\ Handled /\ UNCHANGED <<tasks, spawned>>
       ELSE IF k \in RefreshKeys
       THEN /\ state' = Loading
            /\ SpawnFetch
            /\ Continue
            /\ Handled
            /\ UNCHANGED <<stories, selected, loading_progress>>
       ELSE Continue /\ Ignored /\ UNCHANGED <<appVars, tasks, spawned>>

\* AppState::Error(_) => match key.code
ErrorKey(k) ==
    /\ NoOpen
    /\ IF k \in QuitKeys
       THEN Return /\ Returned("ok") /\ Handled /\ UNCHANGED <<tasks, spawned>>
       ELSE IF k \in RefreshKeys
       THEN /\ state' = Loading
            /\ loading_progress' = 0
            /\ SpawnFetch
            /\ Continue
            /\ Handled
            /\ UNCHANGED <<stories, selected>>
       ELSE Continue /\ Ignored /\ UNCHANGED <<appVars, tasks, spawned>>

\* AppState::Stories => match key.code, mutated: refresh keeps the old list
\* until the new one arrives
StoriesKey_noclear(k) ==
    IF k \in QuitKeys
    THEN Return /\ Returned("ok") /\ Handled /\ NoOpen /\ UNCHANGED <<tasks, spawned>>
    ELSE IF k \in DownKeys
    THEN App_next /\ Continue /\ Handled /\ NoOpen /\ UNCHANGED <<tasks, spawned>>
    ELSE IF k \in UpKeys
    THEN App_previous /\ Continue /\ Handled /\ NoOpen /\ UNCHANGED <<tasks, spawned>>
    ELSE IF k = "Enter"
    THEN /\ LET story == selected_story
            IN  IF story # <<>> /\ UrlOf(story[1]) # <<>> /\ UrlOf(story[1])[1] # ""
                THEN OpenThat(UrlOf(story[1])[1])
                ELSE NoOpen
         /\ Continue
         /\ Handled
         /\ UNCHANGED <<appVars, tasks, spawned>>
    ELSE IF k \in RefreshKeys
    THEN /\ state' = Loading
         /\ loading_progress' = 0
         /\ SpawnFetch
         /\ Continue
         /\ Handled
         /\ NoOpen
         /\ UNCHANGED <<stories, selected>>
    ELSE Continue /\ Ignored /\ NoOpen /\ UNCHANGED <<appVars, tasks, spawned>>

\* AppState::Stories => match key.code, mutated: Enter opens an empty URL too
StoriesKey_openempty(k) ==
    IF k \in QuitKeys
    THEN Return /\ Returned("ok") /\ Handled /\ NoOpen /\ UNCHANGED <<tasks, spawned>>
    ELSE IF k \in DownKeys
    THEN App_next /\ Continue /\ Handled /\ NoOpen /\ UNCHANGED <<tasks, spawned>>
    ELSE IF k \in UpKeys
    THEN App_previous /\ Continue /\ Handled /\ NoOpen /\ UNCHANGED <<tasks, spawned>>
    ELSE IF k = "Enter"
    THEN /\ LET story == selected_story
            IN  IF story # <<>> /\ UrlOf(story[1]) # <<>>
                THEN OpenThat(UrlOf(story[1])[1])
                ELSE NoOpen
         /\ Continue
         /\ Handled
         /\ UNCHANGED <<appVars, tasks, spawned>>
    ELSE IF k \in RefreshKeys
    THEN /\ state' = Loading
         /\ loading_progress' = 0
         /\ stories' = <<>>
         /\ SpawnFetch
         /\ Continue
         /\ Handled
         /\ NoOpen
         /\ UNCHANGED selected
    ELSE Continue /\ Ignored /\ NoOpen /\ UNCHANGED <<appVars, tasks, spawned>>

\* AppState::Stories => match key.code
StoriesKey(k) ==
    IF k \in QuitKeys
    THEN Return /\ Returned("ok") /\ Handled /\ NoOpen /\ UNCHANGED <<tasks, spawned>>
    ELSE IF k \in DownKeys
    THEN App_next /\ Continue /\ Handled /\ NoOpen /\ UNCHANGED <<tasks, spawned>>
    ELSE IF k \in UpKeys
    THEN App_previous /\ Continue /\ Handled /\ NoOpen /\ UNCHANGED <<tasks, spawned>>
    ELSE IF k = "Enter"
    THEN /\ LET story == selected_story
            IN  IF story # <<>> /\ UrlOf(story[1]) # <<>> /\ UrlOf(story[1])[1] # ""
                THEN OpenThat(UrlOf(story[1])[1])
                ELSE NoOpen
         /\ Continue
         /\ Handled
         /\ UNCHANGED <<appVars, tasks, spawned>>
    ELSE IF k \in RefreshKeys
    THEN /\ state' = Loading
         /\ loading_progress' = 0
         /\ stories' = <<>>
         /\ SpawnFetch
         /\ Continue
         /\ Handled
         /\ NoOpen
         /\ UNCHANGED selected
    ELSE Continue /\ Ignored /\ NoOpen /\ UNCHANGED <<appVars, tasks, spawned>>

\* A key press arrives within the poll timeout: match app.state
KeyPress(k) ==
    /\ uiPc = "poll"
    /\ CASE state.tag = "Loading" -> LoadingKey(k)
         [] state.tag = "Error" -> ErrorKey(k)
         [] state.tag = "Stories" -> StoriesKey(k)
    /\ UNCHANGED call

\* ------------------------------------------------------ the whole program

NoCall == [name |-> "new", list |-> <<>>, num |-> 0, text |-> ""]

\* main before its first statement. pc is its position; raw and alt are the
\* terminal's modes; began records that raw mode was ever enabled, shown that
\* show_cursor ran; res is what run_app returned
MainStart ==
    [pc |-> "probe", began |-> FALSE, raw |-> FALSE, alt |-> FALSE, shown |-> FALSE,
     res |-> "none"]

\* main while run_app runs: raw mode on, alternate screen entered
MainRunning == [MainStart EXCEPT !.pc = "run", !.began = TRUE, !.raw = TRUE, !.alt = TRUE]

\* main: App::new(), then run_app up to the top of its loop (the channel is
\* created and the first fetch task spawned)
Init ==
    /\ App_new
    /\ chan = <<>>
    /\ spawned = 1
    /\ tasks = [t \in Tasks |-> IF t = 1 THEN NewTask ELSE IdleTask]
    /\ uiPc = "drain"
    /\ call = NoCall
    /\ opened = <<>>
    /\ ignored = FALSE
    /\ main = MainRunning

TaskStep(t, responses) ==
    \/ TaskBuild(t)
    \/ TaskIndex(t, responses)
    \/ TaskItem(t)
    \/ TaskComplete(t)
    \/ TaskSendResult(t)

Next ==
    \/ \E t \in Tasks : TaskStep(t, Ascending(IndexLens))
    \/ Recv
    \/ DrainEnd
    \/ Render
    \/ NoKey
    \/ PollError
    \/ \E k \in Keys : KeyPress(k)

Spec == Init /\ [][Next]_vars

\* One step of run_app's loop, whichever statement it is at
LoopStep == Recv \/ DrainEnd \/ Render \/ NoKey \/ PollError \/ \E k \in Keys : KeyPress(k)

\* Scheduling: every network request ends (response, error or the client's
\* 10 s timeout) and the runtime keeps polling a ready task, so a task that
\* can step does; run_app never blocks longer than its 100 ms poll, so the
\* loop, while it has not returned, steps
Fairness ==
    /\ \A t \in Tasks : WF_vars(TaskStep(t, Ascending(IndexLens)))
    /\ WF_vars(LoopStep)

\* The running program under fair scheduling
SpecLive == Init /\ [][Next]_vars /\ Fairness

\* ------------------------------------------------------------------- main

\* The task is suspended at an .await (the index or an item request), or
\* was spawned and has not run yet
AtAwait(rec) ==
    \/ rec.pc \in {"build", "index"}
    \/ rec.pc = "items" /\ rec.index < Len(rec.ids)

\* main returns (m is its final record) and the #[tokio::main] runtime shuts
\* down: a task suspended at an .await is dropped there; one past its last
\* .await finishes its poll
ExitProcess(m) ==
    /\ main' = [m EXCEPT !.pc = "exit"]
    /\ tasks' = [t \in Tasks |->
                    IF AtAwait(tasks[t]) THEN [tasks[t] EXCEPT !.pc = "cancelled"]
                    ELSE tasks[t]]

\* let result = std::panic::catch_unwind(|| enable_raw_mode()): a panic
\* makes main print and return Ok(()); the call's own Result is dropped
MainProbe ==
    /\ main.pc = "probe"
    /\ \/ ExitProcess(main)
       \/ main' = [main EXCEPT !.pc = "enable", !.raw = TRUE, !.began = TRUE] /\ UNCHANGED tasks
       \/ main' = [main EXCEPT !.pc = "enable"] /\ UNCHANGED tasks
    /\ UNCHANGED <<appVars, chan, spawned, uiPc, call, opened, ignored>>

\* enable_raw_mode()?
MainEnableRaw ==
    /\ main.pc = "enable"
    /\ \/ main' = [main EXCEPT !.pc = "enter", !.raw = TRUE, !.began = TRUE] /\ UNCHANGED tasks
       \/ ExitProcess(main)
    /\ UNCHANGED <<appVars, chan, spawned, uiPc, call, opened, ignored>>

\* execute!(stdout, EnterAlternateScreen, EnableMouseCapture)?: on an error
\* the escape sequences may or may not have reached the terminal
MainEnterScreen ==
    /\ main.pc = "enter"
    /\ \/ main' = [main EXCEPT !.pc = "terminal", !.alt = TRUE] /\ UNCHANGED tasks
       \/ \E entered \in BOOLEAN : ExitProcess([main EXCEPT !.alt = entered])
    /\ UNCHANGED <<appVars, chan, spawned, uiPc, call, opened, ignored>>

\* Terminal::new(backend)?; App::new(); run_app up to the top of its loop
\* (the channel is created and the first fetch task spawned)
MainRunApp ==
    /\ main.pc = "terminal"
    /\ \/ /\ main' = [main EXCEPT !.pc = "run"]
          /\ SpawnFetch
          /\ uiPc' = "drain"
       \/ ExitProcess(main) /\ UNCHANGED <<spawned, uiPc>>
    /\ UNCHANGED <<appVars, chan, call, opened, ignored>>

\* run_app has returned; disable_raw_mode()?
MainDisableRaw ==
    /\ main.pc = "run"
    /\ uiPc = "done"
    /\ \/ main' = [main EXCEPT !.pc = "leave", !.raw = FALSE] /\ UNCHANGED tasks
       \/ ExitProcess(main)
    /\ UNCHANGED <<appVars, chan, spawned, uiPc, call, opened, ignored>>

\* execute!(terminal.backend_mut(), LeaveAlternateScreen, DisableMouseCapture)?
MainLeaveScreen ==
    /\ main.pc = "leave"
    /\ \/ main' = [main EXCEPT !.pc = "cursor", !.alt = FALSE] /\ UNCHANGED tasks
       \/ \E left \in BOOLEAN : ExitProcess([main EXCEPT !.alt = main.alt /\ ~left])
    /\ UNCHANGED <<appVars, chan, spawned, uiPc, call, opened, ignored>>

\* terminal.show_cursor()?; if let Err(err) = res { eprintln!(..) }; Ok(())
MainShowCursor ==
    /\ main.pc = "cursor"
    /\ \/ ExitProcess([main EXCEPT !.shown = TRUE])
       \/ ExitProcess(main)
    /\ UNCHANGED <<appVars, chan, spawned, uiPc, call, opened, ignored>>

\* The process at entry to main: no App, no channel, no task, no loop yet
InitMain ==
    /\ App_new
    /\ chan = <<>>
    /\ spawned = 0
    /\ tasks = [t \in Tasks |-> IdleTask]
    /\ uiPc = "idle"
    /\ call = NoCall
    /\ opened = <<>>
    /\ ignored = FALSE
    /\ main = MainStart

NextMain ==
    \/ MainProbe
    \/ MainEnableRaw
    \/ MainEnterScreen
    \/ MainRunApp
    \/ Next
    \/ MainDisableRaw
    \/ MainLeaveScreen
    \/ MainShowCursor

\* The whole process, from the entry to main to its return
SpecMain == InitMain /\ [][NextMain]_vars

\* ------------------------------------------- the App methods on their own

\* The lists handed to set_stories
StoryLists == Ascending(0..MaxLen) \cup Descending(0..MaxLen)

\* The values handed to update_loading_progress (u16)
ProgressInputs == {0, 50, 99, 100, 101, U16Max}

Called(name, list, num, text) ==
    /\ call' = [name |-> name, list |-> list, num |-> num, text |-> text]
    /\ UNCHANGED <<chan, tasks, spawned, uiPc, opened, ignored, main>>

\* A fresh App, no channel, no task, no loop
InitApp ==
    /\ App_new
    /\ chan = <<>>
    /\ spawned = 0
    /\ tasks = [t \in Tasks |-> IdleTask]
    /\ uiPc = "done"
    /\ call = NoCall
    /\ opened = <<>>
    /\ ignored = FALSE
    /\ main = MainRunning

ApiNext == App_next /\ Called("next", <<>>, 0, "")

ApiPrevious == App_previous /\ Called("previous", <<>>, 0, "")

ApiSetStories == \E list \in StoryLists : set_stories(list) /\ Called("set_stories", list, 0, "")

ApiSetError ==
    \E e \in {"error sending request", ""} : set_error(e) /\ Called("set_error", <<>>, 0, e)

ApiUpdateProgress ==
    \E p \in ProgressInputs :
        update_loading_progress(p) /\ Called("update_loading_progress", <<>>, p, "")

NextApp ==
    \/ ApiNext
    \/ ApiPrevious
    \/ ApiSetStories
    \/ ApiSetError
    \/ ApiUpdateProgress

\* Every sequence of App method calls on a fresh App
SpecApp == InitApp /\ [][NextApp]_vars

\* ------------------------------- fetch_stories_with_progress on its own

FetchLens == 0..MaxIndexLen

\* One fetch whose messages go nowhere (the receiver is gone)
InitFetch ==
    /\ App_new
    /\ chan = <<>>
    /\ spawned = 1
    /\ tasks = [t \in Tasks |-> IF t = 1 THEN NewTask ELSE IdleTask]
    /\ uiPc = "done"
    /\ call = NoCall
    /\ opened = <<>>
    /\ ignored = FALSE
    /\ main = MainRunning

NextFetch ==
    \E t \in Tasks : TaskStep(t, Ascending(FetchLens) \cup Descending(FetchLens))

\* Every run of one fetch, over every index response up to MaxIndexLen
\* identifiers and every failure of the item requests that may fail
SpecFetch == InitFetch /\ [][NextFetch]_vars

\* ----------------------------------------------------------------- claims

\* C1: in every reachable state of the program the selection index
\* satisfies 0 <= selected < max(1, len(stories)).
C1_SelectionInBounds == 0 <= selected /\ selected < Max(1, Len(stories))

\* C2: from a state whose selection is within bounds, next adds exactly 1
\* unless the list is empty or the selection is the last index (then it
\* changes nothing), previous subtracts exactly 1 unless the selection is 0
\* (then it changes nothing), the selection stays in [0, len-1] (0 for the
\* empty list), and neither call changes stories, mode or progress.
C2_SelectionSaturates ==
    [][(selected < Max(1, Len(stories)) /\ call'.name \in {"next", "previous"}) =>
          /\ call'.name = "next" =>
                selected' = IF stories = <<>> \/ selected = Len(stories) - 1
                            THEN selected ELSE selected + 1
          /\ call'.name = "previous" =>
                selected' = IF selected = 0 THEN 0 ELSE selected - 1
          /\ 0 <= selected' /\ selected' <= Max(0, Len(stories) - 1)
          /\ UNCHANGED <<stories, state, loading_progress>>]_vars

\* C2 witness: previous has acted on a selection that next had moved to the
\* last index of a three-element list.
C2_Witness ==
    call.name = "previous" /\ Len(stories) = MaxLen /\ selected = MaxLen - 2

\* C3: right after set_stories(L) the mode is Stories, the selection is 0,
\* the list is L, and selected_story() is L[0] when L is non-empty and None
\* when L is empty.
C3_ReplaceStories ==
    call.name = "set_stories" =>
        /\ state.tag = "Stories"
        /\ selected = 0
        /\ stories = call.list
        /\ selected_story = IF call.list = <<>> THEN <<>> ELSE <<Head(call.list)>>

\* C3 witness: set_stories has installed a non-empty list whose first story
\* is not the lowest identifier.
C3_Witness ==
    call.name = "set_stories" /\ Len(stories) = MaxLen /\ selected_story = <<MaxLen>>

\* The identifiers of a task whose item request did not fail, in rank order
Kept(rec) ==
    LET RECURSIVE keep(_)
        keep(i) == IF i = 0 THEN <<>>
                   ELSE IF (i - 1) \in rec.failed THEN keep(i - 1)
                   ELSE Append(keep(i - 1), rec.ids[i])
    IN  keep(Len(rec.ids))

\* C4: when the index request succeeds with N identifiers and K of the N
\* item requests fail (0 <= K <= N), the fetch returns success and its list
\* holds exactly the N - K fetched items in their rank order.
C4_PartialFailure ==
    \A t \in Tasks :
        LET rec == tasks[t]
        IN  /\ rec.indexed => rec.result \in {"none", "ok"}
            /\ (rec.indexed /\ rec.pc \in {"result", "done"}) =>
                  /\ rec.result = "ok"
                  /\ rec.failed \subseteq 0..(Len(rec.ids) - 1)
                  /\ Len(rec.stories) = Len(rec.ids) - Cardinality(rec.failed)
                  /\ rec.stories = Kept(rec)
                  /\ rec.pc = "done" => rec.term = <<"StoriesLoaded">>

\* C4 witness: the index named three identifiers, the request of the second
\* failed, and the fetch has returned the first and the third.
C4_Witness ==
    \E t \in Tasks :
        /\ tasks[t].pc = "done"
        /\ tasks[t].ids = <<1, 2, 3>>
        /\ tasks[t].failed = {1}
        /\ tasks[t].stories = <<1, 3>>

\* C5: a fetch issues at most 30 item requests, for the identifiers at the
\* index positions 0..29 in rank order, and the App never holds more than
\* 30 stories.
C5_AtMostThirty ==
    /\ Len(stories) <= 30
    /\ \A t \in Tasks :
          /\ Len(tasks[t].reqs) <= 30
          /\ Len(tasks[t].reqs) <= Len(tasks[t].resp)
          /\ tasks[t].reqs = SubSeq(tasks[t].resp, 1, Len(tasks[t].reqs))

\* C5 witness: the index named more than 30 identifiers, the task asked for
\* the first 30 and the App shows 30 stories.
C5_Witness ==
    /\ state.tag = "Stories"
    /\ Len(stories) = 30
    /\ \E t \in Tasks :
          /\ Len(tasks[t].resp) = MaxIndexLen
          /\ Len(tasks[t].reqs) = 30
          /\ tasks[t].pc = "done"

\* C6: the values a successful fetch passes to the progress sink never
\* decrease, lie in [0,100], end with 100, and are below 100 before that.
C6_ProgressMonotone ==
    \A t \in Tasks :
        LET sink == tasks[t].sink
            n == Len(sink)
        IN  tasks[t].result = "ok" =>
              /\ n >= 1
              /\ sink[n] = 100
              /\ \A i \in 1..n : 0 <= sink[i] /\ sink[i] <= 100
              /\ \A i \in 1..(n - 1) : sink[i] <= sink[i + 1] /\ sink[i] < 100
              /\ Cardinality({i \in 1..n : sink[i] = 100}) = 1

\* C6 witness: a fetch of 30 items, one of which failed, has returned.
C6_Witness ==
    \E t \in Tasks :
        /\ tasks[t].result = "ok"
        /\ Len(tasks[t].ids) = 30
        /\ tasks[t].failed # {}
        /\ Len(tasks[t].sink) = 33

\* The UI loop takes the message at the head of the channel in this step
Applies == uiPc = "drain" /\ chan # <<>> /\ chan' = Tail(chan)

\* A retry key press is handled in Error mode in this step
Retries == state.tag = "Error" /\ \E k \in RefreshKeys : KeyPress(k)

\* C7: a task whose index request fails issues no item request and sends an
\* Error message, never StoriesLoaded; when the UI loop takes that message
\* the mode becomes Error; a retry in Error mode sets the mode to Loading
\* and starts a new fetch task.
C7_IndexFailure ==
    /\ [](\A t \in Tasks :
             tasks[t].result = "index_err" =>
                 /\ tasks[t].reqs = <<>>
                 /\ tasks[t].term = <<"Error">>
                 /\ tasks[t].pc = "done")
    /\ [][(Applies /\ Head(chan).type = "Error") =>
             (state'.tag = "Error" /\ state'.msg = Head(chan).error)]_vars
    /\ [][Retries =>
             /\ state' = Loading
             /\ spawned' = spawned + 1
             /\ tasks'[spawned + 1].pc = "build"
             /\ Cardinality({t \in Tasks : tasks'[t].pc # tasks[t].pc}) = 1]_vars

\* C7 witness: the index request of the first task failed, the mode went to
\* Error, and a retry has put the App back to Loading with a second task.
C7_Witness ==
    /\ spawned = 2
    /\ tasks[1].result = "index_err"
    /\ tasks[2].pc = "build"
    /\ state = Loading
    /\ uiPc = "drain"

\* C8: every message the UI loop applies was sent by the task spawned last:
\* after a refresh or retry no message of an earlier task is applied.
C8_NoStaleMessage == [][Applies => Head(chan).from = spawned]_vars

\* C8 witness: after a refresh or retry the stories of the second task have
\* been applied.
C8_Witness ==
    /\ spawned = 2
    /\ tasks[2].pc = "done"
    /\ state.tag = "Stories"
    /\ stories # <<>>
    /\ stories = tasks[2].stories

\* C9: at most one fetch task is live (spawned and not yet past its
\* terminal message) at any time.
C9_OneLiveTask == Cardinality({t \in Tasks : Live(t)}) <= 1

\* C9 witness: a second task is live in its item loop, the first is finished.
C9_Witness ==
    /\ spawned = 2
    /\ tasks[1].pc = "done"
    /\ tasks[2].pc = "items"
    /\ tasks[2].index > 0

\* C10: update_loading_progress(percent) changes nothing when the mode is
\* Stories or Error, and stores min(percent, 100) when the mode is Loading.
C10_ProgressOnlyWhileLoading ==
    [][call'.name = "update_loading_progress" =>
          IF state.tag = "Loading"
          THEN loading_progress' = Min(call'.num, 100) /\ UNCHANGED <<stories, selected, state>>
          ELSE UNCHANGED appVars]_vars

\* C14: a refresh in Stories mode and a retry in Error mode each leave
\* mode = Loading, loading progress = 0 and an empty story list and spawn
\* exactly one fetch task; no other step of the running program spawns one.
Refreshes == state.tag = "Stories" /\ \E k \in RefreshKeys : KeyPress(k)

Started(t) == tasks[t].pc = "idle" /\ tasks'[t].pc # "idle"

C14_RestartSpawnsOne ==
    /\ [][(Refreshes \/ Retries) =>
            /\ state' = Loading
            /\ loading_progress' = 0
            /\ stories' = <<>>
            /\ spawned' = spawned + 1
            /\ tasks'[spawned + 1].pc = "build"
            /\ {t \in Tasks : Started(t)} = {spawned + 1}]_vars
    /\ [][(spawned' # spawned \/ \E t \in Tasks : Started(t)) => (Refreshes \/ Retries)]_vars

C14_Witness ==
    /\ spawned = 2
    /\ tasks[1].term = <<"StoriesLoaded">>
    /\ tasks[2] = NewTask
    /\ state = Loading /\ loading_progress = 0 /\ stories = <<>>
    /\ selected > 0
    /\ uiPc = "drain"

\* C17: set_error(message) changes only the screen mode, to Error carrying
\* the message; stories, selection and stored progress are as before the call.
C17_SetErrorOnlyMode ==
    [][call'.name = "set_error" =>
          /\ state' = ErrorState(call'.text)
          /\ UNCHANGED <<stories, selected, loading_progress>>]_vars

C17_Witness ==
    /\ call.name = "set_error"
    /\ state = ErrorState("error sending request")
    /\ Len(stories) = MaxLen
    /\ selected = MaxLen - 1
    /\ loading_progress = MaxProgress

\* C20: whenever a key is about to be handled while the mode is Stories or
\* Error, no fetch task is live and the channel is empty: every spawned task
\* has sent its terminal message and all its messages have been applied.
C20_QuietOutsideLoading ==
    (uiPc = "poll" /\ state.tag \in {"Stories", "Error"}) =>
        /\ chan = <<>>
        /\ \A t \in Tasks : ~Live(t)
        /\ \A t \in 1..spawned : tasks[t].pc = "done" /\ Len(tasks[t].term) = 1

C20_Witness ==
    /\ uiPc = "poll"
    /\ state.tag = "Error"
    /\ spawned = 2
    /\ tasks[2].result = "index_err"
    /\ tasks[1].result = "ok"

\* C11: every fetch task sends Progress messages, then exactly one terminal
\* message (StoriesLoaded or Error), then nothing; the UI loop applies the
\* messages of a task in the order the task sent them.
Shape(msg) == <<msg.type, msg.progress>>

\* What the task has sent so far, in sending order
SentLog(rec) ==
    [i \in 1..Len(rec.sink) |-> <<"Progress", rec.sink[i]>>]
        \o [i \in 1..Len(rec.term) |-> <<rec.term[i], 0>>]

\* The queued messages of task t, oldest first
Queued(t) ==
    LET own == SelectSeq(chan, LAMBDA msg : msg.from = t)
    IN  [i \in 1..Len(own) |-> Shape(own[i])]

IsSuffix(a, b) == Len(a) <= Len(b) /\ a = SubSeq(b, Len(b) - Len(a) + 1, Len(b))

Rejected(k) ==
    \/ state.tag = "Loading" /\ k \notin QuitKeys
    \/ state.tag = "Error" /\ k \notin (QuitKeys \cup RefreshKeys)

C13_RejectedKeyNoEffect ==
    [][(\E k \in Keys : Rejected(k) /\ KeyPress(k)) =>
          /\ UNCHANGED <<appVars, tasks, spawned, chan>>
          /\ opened' = <<>>
          /\ uiPc' = "drain"]_vars

C13_Witness ==
    /\ ignored
    /\ state = ErrorState("error sending request")
    /\ uiPc = "drain"
    /\ spawned = 1
    /\ opened = <<>>

\* C15: the link opener is called only by the open-selected key in Stories
\* mode, only when the selected story exists and has a non-empty URL, and
\* with that URL; whether it succeeds or fails, stories, selection, mode and
\* progress are unchanged and the loop goes on.
C15_OpenerOnlyOnValidUrl ==
    /\ [][(uiPc = "poll" /\ opened' # <<>>) =>
            /\ KeyPress("Enter")
            /\ state = StoriesState
            /\ selected < Len(stories)
            /\ UrlOf(stories[selected + 1]) \notin {<<>>, <<"">>}
            /\ Len(opened') = 1
            /\ opened'[1].url = UrlOf(stories[selected + 1])[1]
            /\ UNCHANGED <<appVars, tasks, spawned, chan>>
            /\ uiPc' = "drain"]_vars
    /\ [][(uiPc # "poll" /\ opened' # <<>>) => opened' = opened]_vars
    /\ [](opened # <<>> => uiPc = "drain" /\ state = StoriesState)

C15_Witness ==
    /\ opened # <<>>
    /\ ~opened[1].ok
    /\ opened[1].url = UrlOf(2)[1]
    /\ stories = <<1, 2, 3>>
    /\ selected = 1
    /\ state = StoriesState
    /\ uiPc = "drain"

\* C18: every tick runs drain, render, input in that order: a render
\* follows the application, in arrival order, of every message queued
\* until the channel was seen empty, and at most one key press is handled
\* between two consecutive renders.
TickOrder ==
    {<<"drain", "render">>, <<"render", "poll">>, <<"poll", "drain">>,
     <<"render", "done">>, <<"poll", "done">>}

C18_DrainRenderInput ==
    /\ [][uiPc' # uiPc => <<uiPc, uiPc'>> \in TickOrder]_vars
    /\ [][(uiPc = "drain" /\ chan # <<>>) => uiPc' = "drain"]_vars
    /\ [][(uiPc = "drain" /\ (appVars' # appVars \/ Len(chan') < Len(chan))) => Applies]_vars
    /\ [][(uiPc = "render" /\ uiPc' = "poll") => UNCHANGED appVars]_vars
    /\ [][(\E k \in Keys : KeyPress(k)) => uiPc = "poll" /\ uiPc' \in {"drain", "done"}]_vars
    /\ [][(uiPc = "poll" /\ uiPc' = "drain" /\ appVars' # appVars) =>
            \E k \in Keys : KeyPress(k)]_vars

C18_Witness ==
    /\ uiPc = "poll"
    /\ state = StoriesState
    /\ stories = <<1, 2, 3>>
    /\ selected = 2
    /\ loading_progress = MaxProgress

\* C12: on every exit path of the program after terminal setup has begun
\* (clean quit, an error from the main loop, a failed setup step after raw
\* mode was enabled, a failed cleanup step) all of terminal restoration has
\* run: raw mode is disabled, the alternate screen left, the cursor restored.
C12_RestoredOnEveryExit ==
    (main.pc = "exit" /\ main.began) => (~main.raw /\ ~main.alt /\ main.shown)

\* C16 as stated: quit is accepted in every mode and ends the loop in the
\* same tick, even while a fetch task runs; after quit no message is applied;
\* the abandoned task is never blocked or aborted and still runs to its
\* terminal message.
QuitAccepted ==
    /\ [](uiPc = "poll" => \A k \in QuitKeys : ENABLED KeyPress(k))
    /\ [][\A k \in QuitKeys : KeyPress(k) => (uiPc' = "done" /\ main'.res = "ok")]_vars
    /\ [][uiPc = "done" => UNCHANGED <<appVars, chan, uiPc>>]_vars

\* Once run_app has returned, every send a live task may make goes through
SendsNeverBlock ==
    [](uiPc = "done" =>
          \A t \in Tasks : Live(t) =>
              /\ ENABLED Send(Progress(MaxProgress, t))
              /\ ENABLED Send(StoriesLoaded(tasks[t].stories, t))
              /\ ENABLED Send(ErrorMsg("error sending request", t)))

C16_TaskRunsToItsEnd ==
    /\ QuitAccepted
    /\ SendsNeverBlock
    /\ [][\A t \in Tasks : Live(t) => tasks'[t].pc # "cancelled"]_vars

\* C16, amended: quit is accepted in every mode and ends the loop in the
\* same tick, even while a fetch task runs; after quit no message is applied;
\* no send blocks or aborts the abandoned task, which runs on until its
\* terminal message or until main returns, when the runtime drops a task
\* that is suspended at a request.
C16_QuitAbandonsTask ==
    /\ QuitAccepted
    /\ SendsNeverBlock
    /\ [][\A t \in Tasks :
            (Live(t) /\ tasks'[t].pc = "cancelled") =>
                (main.pc # "exit" /\ main'.pc = "exit" /\ AtAwait(tasks[t]))]_vars

C16_Witness ==
    /\ main.pc = "exit"
    /\ main.res = "ok"
    /\ main.shown
    /\ tasks[1].pc = "cancelled"
    /\ tasks[1].index > 0
    /\ state = Loading

\* C19: with every network request terminating and fair scheduling of the
\* fetch task and the UI loop, every fetch task terminates after at most 30
\* item requests, and whenever the mode is Loading and the user does not
\* quit, the mode eventually becomes Stories or Error.
C19_LoadingEnds ==
    /\ [](\A t \in Tasks : Len(tasks[t].reqs) <= MaxStories)
    /\ \A t \in Tasks : Live(t) ~> (tasks[t].pc = "done" /\ Len(tasks[t].term) = 1)
    /\ (state = Loading /\ uiPc # "done") ~> (state.tag \in {"Stories", "Error"} \/ uiPc = "done")

C19_Witness ==
    /\ spawned = 2
    /\ tasks[2].pc = "done"
    /\ Len(tasks[2].reqs) = MaxStories
    /\ state = StoriesState
    /\ Len(stories) = MaxStories

\* C21: the story list is non-empty only in Stories mode: in every
\* reachable state whose mode is Loading or Error, stories is empty, so Error
\* mode never shows stories of an earlier successful fetch.
C21_StoriesOnlyInStoriesMode ==
    state.tag \in {"Loading", "Error"} => stories = <<>>

C21_Witness ==
    /\ state.tag = "Error"
    /\ stories = <<>>
    /\ spawned = 2
    /\ tasks[1].term = <<"StoriesLoaded">>
    /\ tasks[2].term = <<"Error">>
    /\ selected = SmallLen - 1
    /\ uiPc = "render"

\* C22: within one Loading episode (from startup, refresh or retry until
\* the mode next changes) the stored loading progress is 0 on entry, stays
\* within 0..100 and never decreases, hence not from one rendered frame to
\* the next either.
C22_ProgressWithinEpisode ==
    /\ [](state = Loading => loading_progress \in 0..MaxProgress)
    /\ [][(state # Loading /\ state' = Loading /\ uiPc' # "done") => loading_progress' = 0]_vars
    /\ [][(state = Loading /\ state' = Loading /\ uiPc' # "done") =>
            loading_progress' >= loading_progress]_vars

C22_Witness ==
    /\ state = Loading
    /\ spawned = 2
    /\ tasks[1].term = <<"Error">>
    /\ loading_progress = MaxProgress
    /\ uiPc = "poll"

\* C23: in every reachable state whose mode is Stories,
\* selected < max(1, len(stories)); so selected_story returns a story
\* exactly when the list is non-empty, and with an empty list the
\* move-selection and open-selected keys change nothing.
C23_SelectionInBoundsInStories ==
    /\ [](state = StoriesState =>
            /\ selected < Max(1, Len(stories))
            /\ selected_story # <<>> <=> stories # <<>>)
    /\ [][(state = StoriesState /\ stories = <<>> /\
            \E k \in DownKeys \cup UpKeys \cup {"Enter"} : KeyPress(k)) =>
               (UNCHANGED <<appVars, tasks, spawned, chan>> /\ opened' = <<>>)]_vars

C23_Witness ==
    /\ state = StoriesState
    /\ spawned = 2
    /\ Len(stories) = SmallLen - 1
    /\ selected = SmallLen - 2
    /\ selected_story = <<SmallLen - 1>>
====
